---- MODULE Spec2Model ----
(***************************************************************************)
(* Model of facial.py: the EmotionDetector aggregator (two bounded deques  *)
(* and the statistics over them) and the EmotionDetectionApp session       *)
(* control (start_detection / stop_detection on the Tk main thread, the    *)
(* run_detection loop on daemon threads, the update_frame render tick).    *)
(*                                                                         *)
(* The Tk callbacks run one at a time on the main thread; the detection    *)
(* threads interleave with them between any two accesses of shared state   *)
(* (detection_active, emotion_history, emotion_timestamps).  A handler is  *)
(* therefore split at exactly those accesses; code between two shared      *)
(* accesses is local and is folded into the step that follows it.          *)
(***************************************************************************)
EXTENDS Integers, Sequences, FiniteSets, TLC

\* ------------------------------------------------------------------ constants
\* deque(maxlen=100)
maxlen == 100

\* ------------------------------------------------------------------ bounds
\* start_detection calls that pass the guard (one detection thread each)
MaxSessions == 2
\* frames on which the classifier reports an emotion, per behaviour
MaxRecords == 1
\* length of the short histories get_emotion_stats is called on directly
MaxHist == 4
\* direct calls of get_emotion_stats per behaviour
MaxCalls == 2

Labels == {"happy", "sad"}
None == "None"
Threads == 1..MaxSessions

\* ------------------------------------------------------------------ state
VARIABLES
    emotion_history,      \* EmotionDetector.emotion_history (labels)
    emotion_timestamps,   \* EmotionDetector.emotion_timestamps (instants)
    detection_active,     \* EmotionDetectionApp.detection_active
    emotion_stats_label,  \* text of the statistics label
    camera_frame,         \* what the camera label shows
    threads,              \* the run_detection threads, one per session
    mainpc,               \* position of the Tk main thread inside a callback
    emotion_counts,       \* get_emotion_stats' local emotion_counts
    it_dirty,             \* the deque was mutated under get_emotion_stats' iterator
    stop_result,          \* what the last stop_detection call returned
    closed,               \* on_closing has run
    rendering,            \* update_frame has rescheduled itself (root.after)
    \* history variables, read by the properties only
    op,                   \* the callback whose call this step begins, or "-"
    session,              \* start_detection calls that passed the guard
    clock,                \* datetime.now() readings taken
    nrec,                 \* emotions reported to detection loops
    log,                  \* labels appended since the last emotion_history.clear()
    tlog,                 \* instants appended since the last emotion_timestamps.clear()
    history_src,          \* per emotion_history entry: appending thread and session
    pure,                 \* the current session started with no older loop alive
                          \* and has not been stopped
    at_failure,           \* whether the current session's loop has ended on a
                          \* failed read, and emotion_history as it was then
    returned              \* what get_emotion_stats returned to each call made
                          \* outside stop_detection, oldest first

vars == <<emotion_history, emotion_timestamps, detection_active,
          emotion_stats_label, camera_frame, threads, mainpc, emotion_counts,
          it_dirty, stop_result, closed, rendering, op, session, clock, nrec, log, tlog,
          history_src, pure, at_failure, returned>>

\* ------------------------------------------------------------------ values
EmptyMap == <<>>
NoneValue == [kind |-> "None"]
NoCall == [kind |-> "nocall"]
\* the current session's loop has not ended on a failed read
NotFailed == [failed |-> FALSE, history |-> <<>>]
Placeholder == [kind |-> "placeholder"]
StatsText(m) == [kind |-> "stats", items |-> m]

Min(a, b) == IF a < b THEN a ELSE b
Range(s) == {s[i] : i \in 1..Len(s)}
LastN(s, n) == SubSeq(s, Len(s) - n + 1, Len(s))

\* ------------------------------------------------------------------ deque
\* deque(maxlen=100).append: a full deque drops its leftmost item
deque_append_unbounded(d, x) == Append(d, x)
deque_append_drop_new(d, x) == IF Len(d) >= maxlen THEN d ELSE Append(d, x)
deque_append(d, x) ==
    IF Len(d) >= maxlen THEN Append(Tail(d), x) ELSE Append(d, x)

\* deque.clear()
deque_clear_keep_last(d) == IF d = <<>> THEN d ELSE <<d[Len(d)]>>
deque_clear(d) == <<>>

\* ------------------------------------------------------------------ statistics
\* emotion_counts[emotion] = emotion_counts.get(emotion, 0) + 1
count_one_overwrite(c, e) == (e :> 1) @@ c
count_one(c, e) == (e :> ((IF e \in DOMAIN c THEN c[e] ELSE 0) + 1)) @@ c

\* for emotion in self.emotion_history: ... (from the i-th entry on).  The
\* dictionary's keys are looked at on every turn, so that TLC computes each
\* update before the next turn instead of nesting them all.
RECURSIVE count_from(_, _, _)
count_from(c, h, i) ==
    IF i > Len(h) \/ None \in DOMAIN c THEN c
    ELSE count_from(count_one(c, h[i]), h, i + 1)

\* emotion_counts = {}; the for loop
count_emotions(h) == count_from(EmptyMap, h, 1)

\* {emotion: count / total * 100 ...}: the exact quotient 100*count/total,
\* kept as numerator and denominator
percentages(c, total) ==
    [k \in DOMAIN c |-> [num |-> c[k] * 100, den |-> total]]

get_emotion_stats(h) ==
    IF h = <<>> THEN EmptyMap ELSE percentages(count_emotions(h), Len(h))

\* f"{percentage:.2f}": hundredths of a percent, ties to even
fmt2(p) ==
    LET n == p.num * 100
        q == n \div p.den
        r == n % p.den
    IN  IF 2 * r > p.den \/ (2 * r = p.den /\ q % 2 = 1) THEN q + 1 ELSE q

stats_text(stats) == StatsText([k \in DOMAIN stats |-> fmt2(stats[k])])

\* ------------------------------------------------------------------ detector
Frames ==
    {[faces |-> 0, fails |-> FALSE, dominant |-> None, score |-> 0],
     [faces |-> 1, fails |-> TRUE,  dominant |-> None, score |-> 0],
     [faces |-> 1, fails |-> FALSE, dominant |-> None, score |-> 0]}
    \cup {[faces |-> 1, fails |-> FALSE, dominant |-> l, score |-> 90] : l \in Labels}

\* (face_box, emotion_label, confidence) when nothing is detected
NoResult == <<None, None, 0>>
\* an exception leaving a call
Raised == <<"raise", "Exception", 0>>

\* the body of detect_emotion's try: (face_box, emotion_label, confidence), or
\* an exception of the cascade or of DeepFace.analyze
detect_body(frame) ==
    IF frame.fails THEN Raised
    ELSE IF frame.faces > 0
         THEN <<"box", frame.dominant,
                IF frame.dominant = None THEN 0 ELSE frame.score>>
         ELSE NoResult

\* try: ... except Exception: return None, None, 0
detect_emotion_uncaught(frame) == detect_body(frame)
detect_emotion(frame) ==
    IF detect_body(frame) = Raised THEN NoResult ELSE detect_body(frame)

\* ------------------------------------------------------------------ threads
Unborn == [pc |-> "unborn", emotion |-> None, stopped |-> FALSE, extra |-> 0]
Alive(t) == threads[t].pc \notin {"unborn", "done"}


\* ------------------------------------------------------------------ initial states
\* EmotionDetectionApp.__init__ / EmotionDetector.__init__
Init ==
    /\ emotion_history = <<>>
    /\ emotion_timestamps = <<>>
    /\ detection_active = FALSE
    /\ emotion_stats_label = Placeholder
    /\ camera_frame = "blank"
    /\ threads = [t \in Threads |-> Unborn]
    /\ mainpc = "idle"
    /\ emotion_counts = EmptyMap
    /\ it_dirty = FALSE
    /\ stop_result = NoCall
    /\ closed = FALSE
    /\ rendering = TRUE
    /\ op = "init"
    /\ session = 0
    /\ clock = 0
    /\ nrec = 0
    /\ log = <<>>
    /\ tlog = <<>>
    /\ history_src = <<>>
    /\ pure = FALSE
    /\ at_failure = NotFailed
    /\ returned = <<>>

\* A first session in progress whose loop has recorded n observations, n just
\* below or at the capacity, and stands at its loop condition.  The labels
\* recorded are all "happy", or "happy", "happy", "sad" over and over.
Recorded(n, k) == [i \in 1..n |-> IF i % k = 0 THEN "sad" ELSE "happy"]

InitFill ==
    \E n \in {maxlen - 1, maxlen}, k \in {3, maxlen + 1} :
        /\ emotion_history = Recorded(n, k)
        /\ emotion_timestamps = [i \in 1..n |-> i]
        /\ detection_active = TRUE
        /\ emotion_stats_label = Placeholder
        /\ camera_frame = "blank"
        /\ threads = [t \in Threads |->
                        IF t = 1 THEN [Unborn EXCEPT !.pc = "while"] ELSE Unborn]
        /\ mainpc = "idle"
        /\ emotion_counts = EmptyMap
        /\ it_dirty = FALSE
        /\ stop_result = NoCall
        /\ closed = FALSE
        /\ rendering = TRUE
        /\ op = "init"
        /\ session = 1
        /\ clock = n
        /\ nrec = 0
        /\ log = Recorded(n, k)
        /\ tlog = [i \in 1..n |-> i]
        /\ history_src = [i \in 1..n |-> [by |-> 1, epoch |-> 1]]
        /\ pure = TRUE
        /\ at_failure = NotFailed
        /\ returned = <<>>

\* The detector holding any short history h, or a full deque, with the
\* session either in progress (active True, its loop at the loop condition) or
\* stopped (active False, its loop ended, the statistics shown).
Histories ==
    UNION {[1..n -> Labels] : n \in 0..MaxHist} \cup {Recorded(maxlen, 3)}

InitStats ==
    \E h \in Histories, active \in BOOLEAN :
        /\ emotion_history = h
        /\ emotion_timestamps = [i \in 1..Len(h) |-> i]
        /\ detection_active = active
        /\ emotion_stats_label =
               IF active \/ h = <<>> THEN Placeholder
               ELSE stats_text(get_emotion_stats(h))
        /\ camera_frame = "blank"
        /\ threads = [t \in Threads |->
                        IF t = 1
                        THEN [Unborn EXCEPT !.pc = IF active THEN "while" ELSE "done",
                                            !.stopped = ~active]
                        ELSE Unborn]
        /\ mainpc = "idle"
        /\ emotion_counts = EmptyMap
        /\ it_dirty = FALSE
        /\ stop_result = IF active THEN NoCall ELSE NoneValue
        /\ closed = FALSE
        /\ rendering = TRUE
        /\ op = "init"
        /\ session = 1
        /\ clock = Len(h)
        /\ nrec = 0
        /\ log = h
        /\ tlog = [i \in 1..Len(h) |-> i]
        /\ history_src = [i \in 1..Len(h) |-> [by |-> 1, epoch |-> 1]]
        /\ pure = active
        /\ at_failure = NotFailed
        /\ returned = <<>>

\* ------------------------------------------------------------------ start_detection
detector == <<emotion_history, emotion_timestamps, log, tlog, history_src>>
ui == <<emotion_stats_label, camera_frame, rendering>>
stats_locals == <<emotion_counts, it_dirty>>
counters == <<clock, nrec, at_failure, returned>>

\* if not self.detection_active:
start_guard_always == TRUE
start_guard == ~detection_active

\* start_detection up to emotion_history.clear(); with the guard false the call
\* returns at once
start_detection ==
    /\ ~closed /\ mainpc = "idle"
    /\ op' = "start_detection"
    /\ IF start_guard
       THEN /\ session < MaxSessions
            /\ emotion_history' = deque_clear(emotion_history)
            /\ history_src' = deque_clear(history_src)
            /\ log' = <<>>
            /\ session' = session + 1
            /\ pure' = (\A t \in Threads : ~Alive(t))
            /\ mainpc' = "reset_timestamps"
            /\ at_failure' = NotFailed
            /\ UNCHANGED <<emotion_timestamps, tlog, detection_active, ui,
                           threads, stats_locals, stop_result, closed, clock,
                           nrec, returned>>
       ELSE UNCHANGED <<detector, detection_active, ui, threads, mainpc,
                        stats_locals, stop_result, closed, session, counters,
                        pure>>

\* reset_emotion_history: emotion_timestamps.clear()
start_reset_timestamps ==
    /\ ~closed /\ mainpc = "reset_timestamps"
    /\ emotion_timestamps' = deque_clear(emotion_timestamps)
    /\ tlog' = <<>>
    /\ mainpc' = "set_active"
    /\ op' = "-"
    /\ UNCHANGED <<emotion_history, log, history_src, detection_active, ui,
                   threads, stats_locals, stop_result, closed, session,
                   counters, pure>>

\* self.detection_active = True
start_set_active ==
    /\ ~closed /\ mainpc = "set_active"
    /\ detection_active' = TRUE
    /\ mainpc' = "spawn"
    /\ op' = "-"
    /\ UNCHANGED <<detector, ui, threads, stats_locals, stop_result, closed,
                   session, counters, pure>>

\* threading.Thread(target=self.run_detection, daemon=True).start()
start_spawn ==
    /\ ~closed /\ mainpc = "spawn"
    /\ threads' = [threads EXCEPT ![session] = [Unborn EXCEPT !.pc = "while"]]
    /\ mainpc' = "idle"
    /\ op' = "-"
    /\ UNCHANGED <<detector, detection_active, ui, stats_locals, stop_result,
                   closed, session, counters, pure>>

\* ------------------------------------------------------------------ stop_detection
\* if self.detection_active:
stop_guard_always == TRUE
stop_guard == detection_active

\* stop_detection up to self.detection_active = False; with the guard false the
\* call returns at once (a Python function without return yields None)
stop_detection ==
    /\ ~closed /\ mainpc = "idle"
    /\ op' = "stop_detection"
    /\ IF stop_guard
       THEN /\ detection_active' = FALSE
            /\ threads' = [t \in Threads |->
                             IF Alive(t) THEN [threads[t] EXCEPT !.stopped = TRUE]
                             ELSE threads[t]]
            /\ pure' = FALSE
            /\ mainpc' = "stats"
            /\ UNCHANGED <<detector, ui, stats_locals, stop_result, closed,
                           session, counters>>
       ELSE /\ stop_result' = NoneValue
            /\ UNCHANGED <<detector, detection_active, ui, threads, mainpc,
                           stats_locals, closed, session, counters, pure>>

\* get_emotion_stats: if not self.emotion_history: return {}
\* then stop_detection: if stats: (false) and the call returns
stats_empty ==
    /\ ~closed /\ mainpc = "stats"
    /\ emotion_history = <<>>
    /\ stop_result' = NoneValue
    /\ mainpc' = "idle"
    /\ op' = "-"
    /\ UNCHANGED <<detector, detection_active, ui, threads, stats_locals,
                   closed, session, counters, pure>>

\* get_emotion_stats: the for loop takes its iterator over the deque
stats_begin ==
    /\ ~closed /\ mainpc = "stats"
    /\ emotion_history # <<>>
    /\ it_dirty' = FALSE
    /\ mainpc' = "stats_iter"
    /\ op' = "-"
    /\ UNCHANGED <<detector, detection_active, ui, threads, emotion_counts,
                   stop_result, closed, session, counters, pure>>

\* the iterator finds the deque mutated: RuntimeError leaves stop_detection
stats_raise ==
    /\ ~closed /\ mainpc = "stats_iter"
    /\ it_dirty
    /\ it_dirty' = FALSE
    /\ stop_result' = [kind |-> "RuntimeError"]
    /\ mainpc' = "idle"
    /\ op' = "-"
    /\ UNCHANGED <<detector, detection_active, ui, threads, emotion_counts,
                   closed, session, counters, pure>>

\* the for loop runs to its end over an unmutated deque
stats_counted ==
    /\ ~closed /\ mainpc = "stats_iter"
    /\ ~it_dirty
    /\ emotion_counts' = count_emotions(emotion_history)
    /\ mainpc' = "stats_total"
    /\ op' = "-"
    /\ UNCHANGED <<detector, detection_active, ui, threads, it_dirty,
                   stop_result, closed, session, counters, pure>>

\* total = len(self.emotion_history); the percentages; the label's text
stop_show_stats ==
    /\ ~closed /\ mainpc = "stats_total"
    /\ LET stats == percentages(emotion_counts, Len(emotion_history))
       IN  emotion_stats_label' =
               IF DOMAIN stats # {} THEN stats_text(stats) ELSE emotion_stats_label
    /\ emotion_counts' = EmptyMap
    /\ stop_result' = NoneValue
    /\ mainpc' = "idle"
    /\ op' = "-"
    /\ UNCHANGED <<detector, detection_active, camera_frame, rendering, threads,
                   it_dirty, closed, session, counters, pure>>


\* get_emotion_stats called on the detector by itself, with no detection loop
\* appending meanwhile: the whole method, its result handed to the caller
get_emotion_stats_call_draining ==
    /\ ~closed /\ mainpc = "idle"
    /\ Len(returned) < MaxCalls
    /\ returned' = Append(returned, get_emotion_stats(emotion_history))
    /\ emotion_history' = <<>>
    /\ UNCHANGED <<emotion_timestamps, log, tlog, history_src, detection_active,
                   ui, threads, mainpc, stats_locals, stop_result, closed, op,
                   session, clock, nrec, at_failure, pure>>
get_emotion_stats_call ==
    /\ ~closed /\ mainpc = "idle"
    /\ Len(returned) < MaxCalls
    /\ returned' = Append(returned, get_emotion_stats(emotion_history))
    /\ UNCHANGED <<detector, detection_active, ui, threads, mainpc, stats_locals,
                   stop_result, closed, op, session, clock, nrec, at_failure,
                   pure>>

\* ------------------------------------------------------------------ run_detection
\* while self.detection_active: (false) the thread ends
run_exit(t) ==
    /\ ~closed /\ threads[t].pc = "while"
    /\ ~detection_active
    /\ threads' = [threads EXCEPT ![t].pc = "done"]
    /\ op' = "-"
    /\ UNCHANGED <<detector, detection_active, ui, mainpc, stats_locals,
                   stop_result, closed, session, counters, pure>>

\* a pass begun after stop_detection ran on this thread's session
Passes(t) ==
    IF threads[t].stopped THEN Min(threads[t].extra + 1, 2) ELSE threads[t].extra

\* while (true); ret, frame = self.cap.read(); if not ret: break
run_read_fail(t) ==
    /\ ~closed /\ threads[t].pc = "while"
    /\ detection_active
    /\ threads' = [threads EXCEPT ![t].pc = "done", ![t].extra = Passes(t)]
    /\ at_failure' = IF t = session
                     THEN [failed |-> TRUE, history |-> emotion_history]
                     ELSE at_failure
    /\ op' = "-"
    /\ UNCHANGED <<detector, detection_active, ui, mainpc, stats_locals,
                   stop_result, closed, session, clock, nrec, pure,
                   returned>>

\* while (true); the frame is read; detect_emotion; if emotion: -- on one
\* frame.  An exception out of detect_emotion would end the thread.
run_detect_on(t, frame) ==
    /\ ~closed /\ threads[t].pc = "while"
    /\ detection_active
    /\ LET r == detect_emotion(frame)
           emotion == r[2]
       IN  IF r = Raised
           THEN /\ nrec' = nrec
                /\ threads' = [threads EXCEPT ![t].pc = "done",
                                              ![t].extra = Passes(t)]
           ELSE IF emotion # None
           THEN /\ nrec < MaxRecords
                /\ nrec' = nrec + 1
                /\ threads' = [threads EXCEPT ![t].pc = "append_history",
                                              ![t].emotion = emotion,
                                              ![t].extra = Passes(t)]
           ELSE /\ nrec' = nrec
                /\ threads' = [threads EXCEPT ![t].extra = Passes(t)]
    /\ op' = "-"
    /\ UNCHANGED <<detector, detection_active, ui, mainpc, stats_locals,
                   stop_result, closed, session, clock, pure, at_failure,
                   returned>>

run_detect(t) == \E frame \in Frames : run_detect_on(t, frame)

\* self.detector.emotion_history.append(emotion)
run_append_history(t) ==
    /\ ~closed /\ threads[t].pc = "append_history"
    /\ emotion_history' = deque_append(emotion_history, threads[t].emotion)
    /\ history_src' = deque_append(history_src, [by |-> t, epoch |-> session])
    /\ log' = Append(log, threads[t].emotion)
    /\ it_dirty' = (mainpc = "stats_iter")
    /\ threads' = [threads EXCEPT ![t].pc = "append_timestamp",
                                  ![t].emotion = None]
    /\ op' = "-"
    /\ UNCHANGED <<emotion_timestamps, tlog, detection_active, ui, mainpc,
                   emotion_counts, stop_result, closed, session, counters, pure>>

\* self.detector.emotion_timestamps.append(datetime.now())
run_append_timestamp(t) ==
    /\ ~closed /\ threads[t].pc = "append_timestamp"
    /\ clock' = clock + 1
    /\ emotion_timestamps' = deque_append(emotion_timestamps, clock + 1)
    /\ tlog' = Append(tlog, clock + 1)
    /\ threads' = [threads EXCEPT ![t].pc = "while"]
    /\ op' = "-"
    /\ UNCHANGED <<emotion_history, log, history_src, detection_active, ui,
                   mainpc, stats_locals, stop_result, closed, session, nrec, pure,
                   at_failure, returned>>

run_detection(t) ==
    \/ run_exit(t)
    \/ run_read_fail(t)
    \/ run_detect(t)
    \/ run_append_history(t)
    \/ run_append_timestamp(t)

\* ------------------------------------------------------------------ update_frame
\* ImageTk.PhotoImage of the frame, with or without the box and the label
shown(r) == "image"

\* the render tick on one read: the box and the label are drawn into the
\* local frame, and the camera label gets the image; a failed read shows
\* nothing new; root.after schedules the next tick.  An exception out of
\* detect_emotion would leave the callback before root.after.
update_frame_on_recording(ret, frame) ==
    /\ ~closed /\ mainpc = "idle" /\ rendering
    /\ LET r == IF ret THEN detect_emotion(frame) ELSE NoResult
       IN  /\ camera_frame' = IF ret /\ r # Raised THEN shown(r) ELSE camera_frame
           /\ rendering' = (r # Raised)
           /\ emotion_history' = IF r[2] \in Labels
                                 THEN deque_append(emotion_history, r[2])
                                 ELSE emotion_history
    /\ op' = "-"
    /\ UNCHANGED <<emotion_timestamps, log, tlog, history_src, detection_active,
                   emotion_stats_label, threads, mainpc, stats_locals,
                   stop_result, closed, session, counters, pure>>
update_frame_on(ret, frame) ==
    /\ ~closed /\ mainpc = "idle" /\ rendering
    /\ LET r == IF ret THEN detect_emotion(frame) ELSE NoResult
       IN  /\ camera_frame' = IF ret /\ r # Raised THEN shown(r) ELSE camera_frame
           /\ rendering' = (r # Raised)
    /\ op' = "-"
    /\ UNCHANGED <<detector, detection_active, emotion_stats_label, threads,
                   mainpc, stats_locals, stop_result, closed, session, counters,
                   pure>>

update_frame == \E ret \in BOOLEAN, frame \in Frames : update_frame_on(ret, frame)

\* ------------------------------------------------------------------ on_closing
\* detection_active = False; the capture is released and the window destroyed:
\* mainloop returns and the process, daemon threads included, ends
on_closing ==
    /\ ~closed /\ mainpc = "idle"
    /\ detection_active' = FALSE
    /\ closed' = TRUE
    /\ op' = "-"
    /\ UNCHANGED <<detector, ui, threads, mainpc, stats_locals, stop_result,
                   session, counters, pure>>

\* ------------------------------------------------------------------ specifications
Next ==
    \/ start_detection
    \/ start_reset_timestamps
    \/ start_set_active
    \/ start_spawn
    \/ stop_detection
    \/ stats_empty
    \/ stats_begin
    \/ stats_raise
    \/ stats_counted
    \/ stop_show_stats
    \/ update_frame
    \/ on_closing
    \/ \E t \in Threads : run_detection(t)

Spec == Init /\ [][Next]_vars

\* the same program from a session whose history is about to fill
SpecFill == InitFill /\ [][Next]_vars

\* the detector's statistics method on its own, called in either session state
NextStats == get_emotion_stats_call
SpecStats == InitStats /\ [][NextStats]_vars


\* ------------------------------------------------------------------ properties
Partway == \E t \in Threads : threads[t].pc = "append_timestamp"
OneSession == pure /\ detection_active
Held(n) == Min(n, maxlen)

\* C1: in every reachable state emotion_history holds at most 100 entries, and
\* so does emotion_timestamps.
C1_HistoryBounded ==
    /\ Len(emotion_history) <= maxlen
    /\ Len(emotion_timestamps) <= maxlen

\* an append arrived at a full history, which is still full
C1_Witness ==
    /\ Len(log) > maxlen
    /\ Len(emotion_history) = maxlen
    /\ Len(tlog) > maxlen
    /\ Len(emotion_timestamps) = maxlen

\* C2: during one session with no start or stop in between, after n recorded
\* observations the history is the last min(n, 100) of them in arrival order
\* (the oldest one is evicted at capacity), and so are the timestamps once the
\* observation under way is complete.
C2_LastObservationsKept ==
    OneSession =>
        /\ Len(emotion_history) = Held(Len(log))
        /\ emotion_history = LastN(log, Held(Len(log)))
        /\ ~Partway =>
              /\ Len(tlog) = Len(log)
              /\ emotion_timestamps = LastN(tlog, Held(Len(tlog)))
              /\ \A i \in 1..(Len(emotion_timestamps) - 1) :
                    emotion_timestamps[i] < emotion_timestamps[i + 1]

\* observation maxlen + 1 has been recorded: the first one is gone, the
\* second one is now the oldest
C2_Witness ==
    /\ OneSession /\ ~Partway
    /\ Len(log) = maxlen + 1
    /\ emotion_history[1] = log[2]
    /\ emotion_timestamps[1] = tlog[2]
    /\ emotion_history[maxlen] = log[maxlen + 1]

RECURSIVE SumNum(_, _)
SumNum(stats, keys) ==
    IF keys = {} THEN 0
    ELSE LET k == CHOOSE x \in keys : TRUE
         IN  stats[k].num + SumNum(stats, keys \ {k})

Occurrences(h, l) == Cardinality({i \in 1..Len(h) : h[i] = l})

\* C3: get_emotion_stats is empty for an empty history; otherwise its keys are
\* the labels present, each mapped to 100 * count / length, and the
\* percentages sum to 100.
C3_StatsAreFrequencies ==
    LET h == emotion_history
        stats == get_emotion_stats(h)
    IN  /\ h = <<>> => stats = EmptyMap
        /\ h # <<>> =>
              /\ DOMAIN stats = Range(h)
              /\ \A l \in DOMAIN stats :
                    /\ stats[l].num = 100 * Occurrences(h, l)
                    /\ stats[l].den = Len(h)
              /\ SumNum(stats, DOMAIN stats) = 100 * Len(h)

\* stop_detection has counted a history that holds both labels, one of them
\* more than once
C3_Witness ==
    /\ mainpc = "stats_total"
    /\ DOMAIN emotion_counts = Labels
    /\ emotion_counts = count_emotions(emotion_history)
    /\ \E l \in Labels : emotion_counts[l] > 1

\* C4: an append to emotion_history or to emotion_timestamps takes effect only
\* in a state where detection_active is true.
C4_AppendOnlyWhileActive ==
    [][(Len(log') = Len(log) + 1 \/ Len(tlog') = Len(tlog) + 1)
          => detection_active]_vars

\* C5 as claimed: start_detection clears the history whatever the session
\* state was when it was called.
C5_StartAlwaysClears ==
    [][op' = "start_detection" => emotion_history' = <<>>]_vars

\* C5 as amended: start_detection called while inactive empties the history
\* before the session is marked active and before the loop it launches
\* exists, so that no entry appended before that call is left in the history
\* afterwards; called while active it clears nothing.
C5_StartFromInactiveClears ==
    [][/\ (op' = "start_detection" /\ ~detection_active) =>
              /\ emotion_history' = <<>>
              /\ ~detection_active'
              /\ threads' = threads
       /\ (op' = "start_detection" /\ detection_active) =>
              emotion_history' = emotion_history
       /\ \A i \in 1..Len(history_src') : history_src'[i].epoch = session'
      ]_vars

\* a second session's start_detection has emptied a history that held entries
C5_Witness ==
    /\ mainpc = "reset_timestamps"
    /\ session > 1
    /\ emotion_history = <<>>
    /\ emotion_timestamps # <<>>

\* C6: once stop_detection has run on a session, that session's loop begins at
\* most one more pass of its body, whatever follows.
C6_LoopStopsWithinOneIteration ==
    \A t \in Threads : threads[t].extra <= 1

\* C7: whenever no loop iteration is between its two appends (and no reset is
\* between its two clears), the two deques have the same length.
C7_DequesSameLength ==
    (~Partway /\ mainpc # "reset_timestamps") =>
        Len(emotion_history) = Len(emotion_timestamps)

\* a loop is running on if it is alive and not merely finishing the pass it
\* was in when its session was stopped
RunningOn(t) == Alive(t) /\ ~(threads[t].stopped /\ threads[t].extra = 0)

\* C8: at no time are two detection loops running.
C8_OneLoopAtATime ==
    Cardinality({t \in Threads : RunningOn(t)}) <= 1

\* C9: start_detection called while the session is active changes neither the
\* history, the timestamps nor the flag, and starts no loop.
C9_StartWhileActiveNoOp ==
    [][(op' = "start_detection" /\ detection_active) =>
          UNCHANGED <<emotion_history, emotion_timestamps, detection_active,
                      threads, mainpc, session>>]_vars

\* start_detection has just returned from a call made during a session that
\* holds observations
C9_Witness ==
    /\ op = "start_detection"
    /\ mainpc = "idle"
    /\ detection_active
    /\ emotion_history # <<>>
    /\ \E t \in Threads : Alive(t)

\* a distribution as a returned value
DictValue(m) == [kind |-> "dict", items |-> m]

\* C10 as claimed: stop_detection called while inactive changes nothing and
\* its result is the empty distribution.
C10_StopWhileInactiveEmptyResult ==
    [][(op' = "stop_detection" /\ ~detection_active) =>
          /\ UNCHANGED <<emotion_history, emotion_timestamps, detection_active,
                         emotion_stats_label>>
          /\ stop_result' = DictValue(EmptyMap)]_vars

\* C10 as amended: stop_detection called while inactive leaves the session
\* inactive, the history, the timestamps and the displayed summary unchanged,
\* computes no distribution and returns None, however often it is repeated.
C10_StopWhileInactiveNoOp ==
    [][(op' = "stop_detection" /\ ~detection_active) =>
          /\ UNCHANGED <<emotion_history, emotion_timestamps, detection_active,
                         emotion_stats_label, emotion_counts, threads>>
          /\ mainpc' = "idle"
          /\ stop_result' = NoneValue]_vars

\* stop_detection has just returned from a call made after a session that
\* left observations and a displayed summary
C10_Witness ==
    /\ op = "stop_detection"
    /\ mainpc = "idle"
    /\ ~detection_active
    /\ stop_result = NoneValue
    /\ emotion_history # <<>>
    /\ emotion_stats_label.kind = "stats"


\* frames with no face, and frames on which detection or classification fails
BadFrames == {f \in Frames : f.faces = 0 \/ f.fails}

\* detect_emotion returns (None, None, 0) on every such frame
NoResultOnBadFrames == \A f \in BadFrames : detect_emotion(f) = NoResult

\* a step that touches the flag or one of the two deques
SessionTouched ==
    \/ detection_active' # detection_active
    \/ emotion_timestamps' # emotion_timestamps
    \/ emotion_history' # emotion_history

\* C11: on a frame with no face or on which detection fails, detect_emotion
\* returns (None, None, 0) and raises nothing; the loop pass on such a frame
\* appends nothing, leaves the flag alone and goes back to its loop condition,
\* and the render tick on it reschedules itself.  (Stated from the effect: a
\* step that does otherwise is not a loop pass or a render tick on such a
\* frame.)
C11_DetectorFailsOpen ==
    [][/\ NoResultOnBadFrames
       /\ \A t \in Threads :
             threads'[t].pc # "while" =>
                 \A f \in BadFrames : ~run_detect_on(t, f)
       /\ ~rendering' => \A f \in BadFrames : ~update_frame_on(TRUE, f)
       /\ SessionTouched =>
             \A f \in BadFrames :
                 /\ ~update_frame_on(TRUE, f)
                 /\ \A t \in Threads : ~run_detect_on(t, f)
      ]_vars

\* a stopped session's loop has made one more pass, which yielded no emotion
\* (none was ever reported), and stands at its loop condition again; the
\* render loop has shown a frame and goes on
C11_Witness ==
    /\ nrec = 0
    /\ detection_active
    /\ rendering
    /\ camera_frame = "image"
    /\ emotion_history = log
    /\ \E t \in Threads :
          /\ threads[t].pc = "while"
          /\ threads[t].extra = 1


\* the current session's loop has ended on a failed read
LoopFailed == at_failure.failed

\* C12: a loop whose frame read fails ends without appending anything more,
\* and a later stop_detection still turns the session from active to inactive
\* and yields the distribution of the history as recorded up to the failure.
C12_ReadFailureThenStop ==
    [][/\ (~LoopFailed /\ LoopFailed') =>
              /\ UNCHANGED <<emotion_history, emotion_timestamps>>
              /\ threads'[session].pc = "done"
       /\ \A t \in Threads : threads[t].pc = "done" => threads'[t].pc = "done"
       /\ (LoopFailed /\ op' = "stop_detection" /\ detection_active) =>
              ~detection_active'
       /\ (LoopFailed /\ mainpc = "stats" /\ mainpc' = "idle") =>
              at_failure.history = <<>>
       /\ (LoopFailed /\ mainpc = "stats_iter") => mainpc' # "idle"
       /\ (LoopFailed /\ mainpc = "stats_total" /\ mainpc' = "idle") =>
              emotion_stats_label' = stats_text(get_emotion_stats(at_failure.history))
      ]_vars


C14_StopShowsSessionSummary ==
    [][/\ (op' = "stop_detection" /\ detection_active) => ~detection_active'
       /\ (/\ mainpc = "stats_total" /\ mainpc' = "idle"
           /\ emotion_counts = count_emotions(emotion_history)) =>
              emotion_stats_label' = stats_text(get_emotion_stats(emotion_history))
       /\ (mainpc = "stats" /\ mainpc' = "idle") =>
              emotion_stats_label' \in {Placeholder, stats_text(EmptyMap)}
      ]_vars


\* C15: once a start_detection that passed its guard has returned, every entry
\* of emotion_history was appended by the loop that this start_detection
\* launched; no observation of an earlier session's loop is in it.
C15_HistoryOwnedBySession ==
    (session > 0 /\ mainpc \notin {"reset_timestamps", "set_active", "spawn"}) =>
        \A i \in 1..Len(history_src) : history_src[i].by = session


\* C16: whenever detection_active is True and start_detection has returned
\* (its loop is launched), some detection loop is still running; a loop that
\* ended on a failed read does not leave the session active.
C16_ActiveIsDriven ==
    (detection_active /\ mainpc = "idle") => \E t \in Threads : Alive(t)


\* C17: the render tick does not depend on the session.  Whenever the main
\* thread is between callbacks and the window is open, update_frame can run,
\* with detection_active True or False and wherever the detection loops stand;
\* and whatever the read and the detector return, the tick leaves
\* emotion_history, emotion_timestamps and detection_active as they were and
\* schedules the next tick.  (The second part is stated from the effect: a step
\* that touches one of the three or schedules no next tick is not a render
\* tick.)
C17_RenderIndependent ==
    /\ []((~closed /\ mainpc = "idle") => ENABLED update_frame)
    /\ [][(SessionTouched \/ ~rendering') => ~update_frame]_vars

C17_Witness ==
    /\ camera_frame = "image" /\ rendering /\ mainpc = "idle"
    /\ detection_active
    /\ \E t \in Threads : threads[t].pc = "append_timestamp"
    /\ Len(emotion_history) # Len(emotion_timestamps)

====
